---- MODULE Spec2Model ----
(***************************************************************************)
(* Daily Rummy Puzzle: the meld validators (isValidRun, isValidGroup,      *)
(* isValidMeld), the board-editing handlers and the scoring submit handler *)
(* of the puzzle page, and the submit handler of the page variant that     *)
(* requires an empty hand; the answers to loadPuzzle on the puzzle page;   *)
(* isValidRun followed statement by statement; the puzzle lookup handlers  *)
(* of the API.                                                             *)
(*                                                                         *)
(* A card token is modelled as a record [s, n]: s is the token's first     *)
(* character (card[0]) and n is parseInt(card.slice(1)).  The wildcard     *)
(* token '*' is the record Wild.                                           *)
(***************************************************************************)
EXTENDS Integers, Sequences, FiniteSets, TLC

(* ------------------------------------------------------------------ *)
(* Bounds of the model                                                  *)
(* ------------------------------------------------------------------ *)

\* longest card sequence given to the validators
MaxLen == 4
\* highest rank of a card given to the validators
MaxRank == 4
\* failed submissions counted in one session
MaxFails == 2
\* highest rank of a card of the two-suit sequences
MaxTwoSuitRank == 4
\* longest card sequence given to isValidGroup alone
MaxGroupLen == 5
\* highest rank of a card given to isValidGroup alone
MaxGroupRank == 2
\* longest card sequence on which isValidRun is followed step by step
MaxWalkLen == 6
\* highest rank of a card of those sequences
MaxWalkRank == 5

(* ------------------------------------------------------------------ *)
(* Card tokens                                                          *)
(* ------------------------------------------------------------------ *)

\* the value the validators put in place of a wildcard's rank (null)
Null == -1

Wild == [s |-> "*", n |-> Null]

Suits == {"R", "B", "G", "Y"}

Card(s, n) == [s |-> s, n |-> n]

\* Array.prototype.filter(c => c !== '*')
RECURSIVE NonWild(_)
NonWild(cards) ==
    IF cards = <<>> THEN <<>>
    ELSE IF Head(cards) = Wild THEN NonWild(Tail(cards))
         ELSE <<Head(cards)>> \o NonWild(Tail(cards))

\* cards.filter(c => c === '*').length
WildCount(cards) == Len(cards) - Len(NonWild(cards))

(* ------------------------------------------------------------------ *)
(* isValidRun                                                           *)
(* ------------------------------------------------------------------ *)

\* RunCompare with the ranks compared the wrong way round (b - a)
RunCompareDescending(a, b) ==
    IF a = Null THEN 1
    ELSE IF b = Null THEN -1
    ELSE b - a

\* the comparator of the sort in isValidRun
RunCompare(a, b) ==
    IF a = Null THEN 1
    ELSE IF b = Null THEN -1
    ELSE a - b

\* insertion of x into an already sorted array, after every element that
\* the comparator does not place behind x
RECURSIVE SortInsert(_, _)
SortInsert(sorted, x) ==
    IF sorted = <<>> THEN <<x>>
    ELSE IF RunCompare(x, Head(sorted)) < 0 THEN <<x>> \o sorted
         ELSE <<Head(sorted)>> \o SortInsert(Tail(sorted), x)

\* SortNumbers without the sort: the ranks walked in the order of the cards
SortNumbersUnsorted(numbers) == numbers

\* [...numbers].sort(comparator)
RECURSIVE SortNumbers(_)
SortNumbers(numbers) ==
    IF numbers = <<>> THEN <<>>
    ELSE SortInsert(SortNumbers(SubSeq(numbers, 1, Len(numbers) - 1)),
                    numbers[Len(numbers)])

\* PopTrailingNull with an if in place of the while: one wildcard discarded
PopTrailingNullOnce(sorted) ==
    IF Len(sorted) > 0 /\ sorted[Len(sorted)] = Null
    THEN SubSeq(sorted, 1, Len(sorted) - 1)
    ELSE sorted

\* while (sorted.length > 0 && sorted[sorted.length - 1] === null) sorted.pop()
RECURSIVE PopTrailingNull(_)
PopTrailingNull(sorted) ==
    IF Len(sorted) > 0 /\ sorted[Len(sorted)] = Null
    THEN PopTrailingNull(SubSeq(sorted, 1, Len(sorted) - 1))
    ELSE sorted

\* the for loop of isValidRun from (1-based) position i on
RECURSIVE RunWalk(_, _, _, _)
RunWalk(sorted, i, lastNum, wildcardsAvailable) ==
    IF i > Len(sorted) THEN TRUE
    ELSE IF sorted[i] = Null
         THEN RunWalk(sorted, i + 1, lastNum, wildcardsAvailable - 1)
    ELSE IF lastNum = Null
         THEN RunWalk(sorted, i + 1, sorted[i], wildcardsAvailable)
    ELSE LET gap == sorted[i] - lastNum - 1
         IN  IF gap < 0 THEN FALSE
             ELSE IF gap > wildcardsAvailable THEN FALSE
             ELSE RunWalk(sorted, i + 1, sorted[i], wildcardsAvailable - gap)

\* RunLengthOk with the length test off by one (cards.length < 2)
RunLengthOkFromTwo(cards) == Len(cards) >= 2

\* the length test of isValidRun
RunLengthOk(cards) == Len(cards) >= 3

isValidRun(cards) ==
    IF ~RunLengthOk(cards) THEN FALSE
    ELSE IF NonWild(cards) = <<>> THEN FALSE
    ELSE LET firstSuit == NonWild(cards)[1].s
             numbers == [i \in 1..Len(cards) |->
                            IF cards[i] = Wild THEN Null ELSE cards[i].n]
             sorted == PopTrailingNull(SortNumbers(numbers))
         IN  IF ~(\A i \in 1..Len(cards) :
                     cards[i] = Wild \/ cards[i].s = firstSuit)
             THEN FALSE
             ELSE RunWalk(sorted, 2, sorted[1], WildCount(cards))

(* ------------------------------------------------------------------ *)
(* isValidGroup, isValidMeld                                            *)
(* ------------------------------------------------------------------ *)

\* GroupLengthOk with the length test off by one (cards.length <= 3)
GroupLengthOkFromFour(cards) == Len(cards) >= 4

\* GroupLengthOk that also refuses more cards than there are suits
GroupLengthOkAtMostSuits(cards) ==
    Len(cards) >= 3 /\ Len(cards) <= Cardinality(Suits)

\* the length test of isValidGroup
GroupLengthOk(cards) == Len(cards) >= 3

\* GroupSuits without the filter: the wildcard's character counted as a suit
GroupSuitsWithWildcards(cards) == {cards[i].s : i \in 1..Len(cards)}

\* new Set(cards.filter(c => c !== '*').map(c => c[0]))
GroupSuits(cards) == {NonWild(cards)[i].s : i \in 1..Len(NonWild(cards))}

isValidGroup(cards) ==
    IF ~GroupLengthOk(cards) THEN FALSE
    ELSE IF NonWild(cards) = <<>> THEN FALSE
    ELSE LET firstNumber == NonWild(cards)[1].n
         IN  IF ~(\A i \in 1..Len(cards) :
                     cards[i] = Wild \/ cards[i].n = firstNumber)
             THEN FALSE
             ELSE Cardinality(GroupSuits(cards)) = Len(NonWild(cards))

\* isValidMeld that asks isValidRun alone
isValidMeldRunOnly(cards) == isValidRun(cards)

isValidMeld(cards) == isValidRun(cards) \/ isValidGroup(cards)

(* ------------------------------------------------------------------ *)
(* Puzzle records                                                       *)
(* ------------------------------------------------------------------ *)

\* A solution string is modelled as the sequence of its pieces: the
\* separators "|", ":" and "," and the texts between them.
\* string.split(sep): the pieces between the occurrences of sep
RECURSIVE Split(_, _)
Split(str, sep) ==
    IF str = <<>> THEN << <<>> >>
    ELSE LET rest == Split(Tail(str), sep)
         IN  IF Head(str) = sep THEN << <<>> >> \o rest
             ELSE << <<Head(str)>> \o rest[1] >> \o Tail(rest)

\* melds.reduce((sum, meld) => sum + meld.split(':')[1].split(',').length, 0)
RECURSIVE SumMeldSpecs(_)
SumMeldSpecs(melds) ==
    IF melds = <<>> THEN 0
    ELSE Len(Split(Split(Head(melds), ":")[2], ",")) + SumMeldSpecs(Tail(melds))

\* the total card count of one optimal solution string
SolutionTotalCards(solution) == SumMeldSpecs(Split(solution, "|"))

\* puzzle.optimal_solutions.some(solution => totalCards === totalCardsUsed)
IsOptimal(p, totalCardsUsed) ==
    \E k \in 1..Len(p.optimal_solutions) :
        SolutionTotalCards(p.optimal_solutions[k]) = totalCardsUsed

\* puzzle.possible_card_counts[count] is truthy
Flagged(p, count) ==
    count \in DOMAIN p.possible_card_counts /\ p.possible_card_counts[count]

\* Object.keys(possible_card_counts).filter(k => possible_card_counts[k])
PossibleCounts(p) == {k \in DOMAIN p.possible_card_counts : p.possible_card_counts[k]}

\* the value of the state variable puzzle before a record is loaded (null)
NullPuzzle ==
    [date |-> "", initial_cards |-> <<>>,
     possible_card_counts |-> <<>>, optimal_solutions |-> <<>>]

\* Puzzle records of the data set: a hand without repeated tokens, whose
\* count map has no key 0, and a hand with two wildcards, whose count map
\* flags the key 0 false.
PuzzleA ==
    [date |-> "2025-01-01",
     initial_cards |-> <<Card("R", 1), Card("R", 2), Card("R", 3), Card("R", 4)>>,
     possible_card_counts |-> (3 :> TRUE @@ 4 :> TRUE),
     optimal_solutions |-> << <<"S1", ":", "R1", ",", "R2", ",", "R3", ",", "R4">> >>]

PuzzleB ==
    [date |-> "2025-01-02",
     initial_cards |-> <<Card("R", 1), Card("R", 2), Wild, Wild>>,
     possible_card_counts |-> (0 :> FALSE @@ 3 :> TRUE @@ 4 :> TRUE),
     optimal_solutions |-> << <<"S1", ":", "R1", ",", "R2", ",", "*", ",", "*">> >>]

Puzzles == {PuzzleA, PuzzleB}

\* A puzzle record of the page variant that requires an empty hand: the
\* record gives the board and the hand the session starts from.
PuzzleE ==
    [date |-> "2025-01-01",
     board |-> << <<Card("R", 1), Card("R", 2), Card("R", 3)>> >>,
     hand |-> <<Card("R", 4)>>,
     solution |-> <<"R1,R2,R3,R4">>]

PuzzlesEmptyHand == {PuzzleE}

(* ------------------------------------------------------------------ *)
(* State                                                                *)
(* ------------------------------------------------------------------ *)

VARIABLES
    page,              \* the page component: "score", or "emptyHand" for the variant
    puzzle,            \* the loaded puzzle record, NullPuzzle before a load
    puzzleError,       \* "null" or the error of the last load
    board,             \* sequence of melds, each a sequence of cards
    hand,              \* sequence of cards
    currentSelection,  \* sequence of cards
    feedback,          \* "null" or the feedback message
    invalidMelds,      \* sequence of 0-based meld indices
    startTime,         \* "null" or "set"
    solveTime,         \* "null" or "recorded"
    failCount,
    showSuccess,
    score,
    usedCardCounts,    \* sequence of claimed counts
    maxScore,
    cards,             \* the card sequence given to the validators
    verdict,           \* <<>> or <<isValidRun, isValidGroup, isValidMeld>> of cards
    walk,              \* the locals of isValidRun while it runs on cards
    request,           \* the request an API handler is answering
    today,             \* the calendar date of the handler's clock
    response,          \* the handler's answer
    availableDates,    \* the page's list of puzzle dates, newest first
    currentDateIndex,  \* 0-based index into availableDates, -1 before the dates load
    error,             \* "null" or the error that replaces the whole page
    inFlight           \* the fetches of the page that have not been answered yet

vars == <<page, puzzle, puzzleError, board, hand, currentSelection, feedback,
          invalidMelds, startTime, solveTime, failCount, showSuccess, score,
          usedCardCounts, maxScore, cards, verdict, walk, request, today,
          response, availableDates, currentDateIndex, error, inFlight>>

\* the date navigation of the page and its fetches
navVars == <<availableDates, currentDateIndex, error, inFlight>>

\* the variables the handlers of a play session leave alone
auxVars == <<cards, verdict, walk, request, today, response, navVars>>

\* the variables of the API handlers
apiVars == <<request, today, response>>

pageVars == <<page, puzzle, puzzleError, board, hand, currentSelection, feedback,
              invalidMelds, startTime, solveTime, failCount, showSuccess, score,
              usedCardCounts, maxScore>>

\* the date navigation before the dates load, no fetch under way
NavIdle ==
    /\ availableDates = <<>>
    /\ currentDateIndex = -1
    /\ error = "null"
    /\ inFlight = <<>>

\* no call of isValidRun under way, no request being answered
AuxIdle ==
    /\ walk = [pc |-> "idle"]
    /\ request = [handler |-> "none"]
    /\ today = <<>>
    /\ response = [status |-> 0]
    /\ NavIdle

Range(seq) == {seq[i] : i \in 1..Len(seq)}

\* array.filter(c => keep(c)) for keep = "c is not in the set drop"
RECURSIVE FilterOut(_, _)
FilterOut(seq, drop) ==
    IF seq = <<>> THEN <<>>
    ELSE IF Head(seq) \in drop THEN FilterOut(Tail(seq), drop)
         ELSE <<Head(seq)>> \o FilterOut(Tail(seq), drop)

\* array.splice(index, 1) for a 1-based index: the array without that element
RemoveAt(seq, index) ==
    SubSeq(seq, 1, index - 1) \o SubSeq(seq, index + 1, Len(seq))

\* the state of the Home component when it is constructed
HomeInit ==
    /\ page = "score"
    /\ puzzle = NullPuzzle
    /\ puzzleError = "null"
    /\ board = <<>>
    /\ hand = <<>>
    /\ currentSelection = <<>>
    /\ feedback = "null"
    /\ invalidMelds = <<>>
    /\ startTime = "null"
    /\ solveTime = "null"
    /\ failCount = 0
    /\ showSuccess = FALSE
    /\ score = 0
    /\ usedCardCounts = <<>>
    /\ maxScore = 0

\* MaxScoreOf without the three points an optimal count adds to the two
MaxScoreOfWithoutBonus(p) == Cardinality(PossibleCounts(p)) * 2

\* Max score is (possible card counts x 2) + 3
MaxScoreOf(p) == (Cardinality(PossibleCounts(p)) * 2) + 3

\* the state in which loadPuzzle leaves the page when the record p arrives
Loaded(p) ==
    /\ page = "score"
    /\ puzzle = p
    /\ board = <<>>
    /\ hand = p.initial_cards
    /\ startTime = "set"
    /\ solveTime = "null"
    /\ failCount = 0
    /\ showSuccess = FALSE
    /\ invalidMelds = <<>>
    /\ currentSelection = <<>>
    /\ feedback = "null"
    /\ puzzleError = "null"
    /\ score = 0
    /\ usedCardCounts = <<>>
    /\ maxScore = MaxScoreOf(p)

\* the state in which loadPuzzle of the variant leaves its page when the
\* record p arrives; the variant has no score, claimed counts or max score
LoadedEmptyHand(p) ==
    /\ page = "emptyHand"
    /\ puzzle = p
    /\ board = p.board
    /\ hand = p.hand
    /\ startTime = "set"
    /\ solveTime = "null"
    /\ failCount = 0
    /\ showSuccess = FALSE
    /\ invalidMelds = <<>>
    /\ currentSelection = <<>>
    /\ feedback = "null"
    /\ puzzleError = "null"
    /\ score = 0
    /\ usedCardCounts = <<>>
    /\ maxScore = 0

(* ------------------------------------------------------------------ *)
(* Board editing                                                        *)
(* ------------------------------------------------------------------ *)

\* the page shows the hand, the board and the action buttons
PlayShown == puzzle # NullPuzzle /\ puzzleError = "null"

handleCardClick(card) ==
    /\ PlayShown
    /\ card \in Range(hand)
    /\ currentSelection' =
          IF card \in Range(currentSelection)
          THEN FilterOut(currentSelection, {card})
          ELSE Append(currentSelection, card)
    /\ UNCHANGED <<page, puzzle, puzzleError, board, hand, feedback, invalidMelds,
                   startTime, solveTime, failCount, showSuccess, score,
                   usedCardCounts, maxScore, auxVars>>

\* BoardWithoutCard that leaves the emptied meld on the board
BoardWithoutCardKeepingEmpty(b, setIndex, cardIndex) ==
    [b EXCEPT ![setIndex] = RemoveAt(b[setIndex], cardIndex)]

\* the board after newBoard[setIndex].splice(cardIndex, 1) and the removal
\* of the meld when it is left empty (1-based indices)
BoardWithoutCard(b, setIndex, cardIndex) ==
    LET meld == RemoveAt(b[setIndex], cardIndex)
    IN  IF Len(meld) = 0 THEN RemoveAt(b, setIndex)
        ELSE [b EXCEPT ![setIndex] = meld]

handleRemoveCard(setIndex, cardIndex) ==
    /\ PlayShown
    /\ setIndex \in 1..Len(board)
    /\ cardIndex \in 1..Len(board[setIndex])
    /\ board' = BoardWithoutCard(board, setIndex, cardIndex)
    /\ hand' = Append(hand, board[setIndex][cardIndex])
    /\ UNCHANGED <<page, puzzle, puzzleError, currentSelection, feedback, invalidMelds,
                   startTime, solveTime, failCount, showSuccess, score,
                   usedCardCounts, maxScore, auxVars>>

\* a[0].localeCompare(b[0]) orders the first characters '*' < B < G < R < Y
SuitOrder(s) ==
    CASE s = "*" -> 0 [] s = "B" -> 1 [] s = "G" -> 2 [] s = "R" -> 3 [] s = "Y" -> 4

\* the comparator of the sort in handleAddCard; the difference of the two
\* parseInt results is NaN for two wildcards, which sort takes as 0
MeldCompare(a, b) ==
    IF a.s # b.s THEN SuitOrder(a.s) - SuitOrder(b.s)
    ELSE IF a = Wild \/ b = Wild THEN 0
    ELSE a.n - b.n

RECURSIVE MeldInsert(_, _)
MeldInsert(sorted, x) ==
    IF sorted = <<>> THEN <<x>>
    ELSE IF MeldCompare(x, Head(sorted)) < 0 THEN <<x>> \o sorted
         ELSE <<Head(sorted)>> \o MeldInsert(Tail(sorted), x)

\* [...meld, card].sort(comparator)
RECURSIVE SortMeld(_)
SortMeld(meld) ==
    IF meld = <<>> THEN <<>>
    ELSE MeldInsert(SortMeld(SubSeq(meld, 1, Len(meld) - 1)), meld[Len(meld)])

\* hand.filter(c => c !== card)
HandWithoutCard(h, card) == FilterOut(h, {card})

handleAddCard(setIndex) ==
    /\ page = "score"
    /\ PlayShown
    /\ setIndex \in 1..Len(board)
    /\ \/ /\ Len(currentSelection) # 1
          /\ feedback' = "Select exactly one card to add"
          /\ UNCHANGED <<board, hand, currentSelection>>
       \/ /\ Len(currentSelection) = 1
          /\ LET card == currentSelection[1]
             IN  /\ board' = [board EXCEPT
                                 ![setIndex] = SortMeld(Append(board[setIndex], card))]
                 /\ hand' = HandWithoutCard(hand, card)
          /\ currentSelection' = <<>>
          /\ feedback' = "null"
    /\ UNCHANGED <<page, puzzle, puzzleError, invalidMelds, startTime, solveTime,
                   failCount, showSuccess, score, usedCardCounts, maxScore,
                   auxVars>>

\* hand.filter(card => !currentSelection.includes(card))
HandWithoutSelection(h, selection) == FilterOut(h, Range(selection))

\* handleNewMeld that leaves the selection as it is when the meld is made
handleNewMeldKeepingSelection ==
    /\ PlayShown
    /\ \/ /\ Len(currentSelection) < 3
          /\ feedback' = "A meld must contain at least 3 cards"
          /\ UNCHANGED <<board, hand, currentSelection>>
       \/ /\ Len(currentSelection) >= 3
          /\ board' = Append(board, currentSelection)
          /\ hand' = HandWithoutSelection(hand, currentSelection)
          /\ feedback' = "null"
          /\ UNCHANGED currentSelection
    /\ UNCHANGED <<page, puzzle, puzzleError, invalidMelds, startTime, solveTime,
                   failCount, showSuccess, score, usedCardCounts, maxScore,
                   auxVars>>

handleNewMeld ==
    /\ PlayShown
    /\ \/ /\ Len(currentSelection) < 3
          /\ feedback' = "A meld must contain at least 3 cards"
          /\ UNCHANGED <<board, hand, currentSelection>>
       \/ /\ Len(currentSelection) >= 3
          /\ board' = Append(board, currentSelection)
          /\ hand' = HandWithoutSelection(hand, currentSelection)
          /\ currentSelection' = <<>>
          /\ feedback' = "null"
    /\ UNCHANGED <<page, puzzle, puzzleError, invalidMelds, startTime, solveTime,
                   failCount, showSuccess, score, usedCardCounts, maxScore,
                   auxVars>>

(* ------------------------------------------------------------------ *)
(* Submission                                                           *)
(* ------------------------------------------------------------------ *)

\* PushesIndex with the test inverted (if (isValidMeld(meld)) acc.push(index))
PushesIndexOfValid(meld) == isValidMeld(meld)

\* whether the reduce of handleSubmit pushes the (0-based) index of meld
PushesIndex(meld) == ~isValidMeld(meld)

\* board.reduce((acc, meld, index) => ..., []) over the first k melds
RECURSIVE InvalidUpTo(_, _)
InvalidUpTo(b, k) ==
    IF k = 0 THEN <<>>
    ELSE IF PushesIndex(b[k]) THEN Append(InvalidUpTo(b, k - 1), k - 1)
         ELSE InvalidUpTo(b, k - 1)

\* InvalidMeldsOf with the validation left out: no meld is reported
InvalidMeldsOfNone(b) == <<>>

InvalidMeldsOf(b) == InvalidUpTo(b, Len(b))

\* board.reduce((sum, meld) => sum + meld.length, 0)
RECURSIVE TotalCardsUsed(_)
TotalCardsUsed(b) ==
    IF b = <<>> THEN 0 ELSE Len(Head(b)) + TotalCardsUsed(Tail(b))

\* CountAccepted with the key's presence tested in place of its flag
CountAcceptedIfKeyPresent(p, used, total) ==
    total \in DOMAIN p.possible_card_counts /\ total \notin Range(used)

\* CountAccepted without the test of the counts already claimed
CountAcceptedIfFlagged(p, used, total) == Flagged(p, total)

\* puzzle.possible_card_counts[total] && !usedCardCounts.includes(total)
CountAccepted(p, used, total) == Flagged(p, total) /\ total \notin Range(used)

\* PointsToAdd with the two point values exchanged
PointsToAddSwapped(p, total) == IF IsOptimal(p, total) THEN 2 ELSE 5

\* const pointsToAdd = isOptimal ? 5 : 2
PointsToAdd(p, total) == IF IsOptimal(p, total) THEN 5 ELSE 2

\* ClaimsLastCount without the "+ 1" for the count being claimed
ClaimsLastCountStale(p, used) == Len(used) = Cardinality(PossibleCounts(p))

\* usedCardCounts.length + 1 === number of the keys flagged true
ClaimsLastCount(p, used) == Len(used) + 1 = Cardinality(PossibleCounts(p))

handleSubmit ==
    /\ page = "score"
    /\ PlayShown
    /\ LET invalid == InvalidMeldsOf(board)
           totalCardsUsed == TotalCardsUsed(board)
       IN  /\ invalidMelds' = invalid
           /\ \/ /\ Len(invalid) > 0
                 /\ failCount < MaxFails
                 /\ feedback' = "Some melds are invalid"
                 /\ failCount' = failCount + 1
                 /\ UNCHANGED <<usedCardCounts, score, showSuccess, solveTime>>
              \/ /\ Len(invalid) = 0
                 /\ CountAccepted(puzzle, usedCardCounts, totalCardsUsed)
                 /\ usedCardCounts' = Append(usedCardCounts, totalCardsUsed)
                 /\ score' = score + PointsToAdd(puzzle, totalCardsUsed)
                 /\ feedback' = IF IsOptimal(puzzle, totalCardsUsed)
                                THEN "Optimal solution! +5 points"
                                ELSE "Valid solution! +2 points"
                 /\ IF ClaimsLastCount(puzzle, usedCardCounts)
                    THEN /\ showSuccess' = TRUE
                         /\ solveTime' = IF startTime # "null"
                                         THEN "recorded" ELSE solveTime
                    ELSE UNCHANGED <<showSuccess, solveTime>>
                 /\ UNCHANGED failCount
              \/ /\ Len(invalid) = 0
                 /\ ~CountAccepted(puzzle, usedCardCounts, totalCardsUsed)
                 /\ failCount < MaxFails
                 /\ feedback' = "This card count has already been used or is not possible"
                 /\ failCount' = failCount + 1
                 /\ UNCHANGED <<usedCardCounts, score, showSuccess, solveTime>>
    /\ UNCHANGED <<page, puzzle, puzzleError, board, hand, currentSelection, startTime,
                   maxScore, auxVars>>

(* ------------------------------------------------------------------ *)
(* The page variant that requires an empty hand                         *)
(* handleCardClick, handleRemoveCard and handleNewMeld are the same     *)
(* code on both pages.                                                  *)
(* ------------------------------------------------------------------ *)

\* newBoard[setIndex].unshift(card).  The variant's splice and unshift act
\* on the arrays of puzzle.board themselves; the page never reads
\* puzzle.board again, so puzzle is kept as it was loaded.
handleAddCardEmptyHand(setIndex) ==
    /\ page = "emptyHand"
    /\ PlayShown
    /\ setIndex \in 1..Len(board)
    /\ \/ /\ Len(currentSelection) # 1
          /\ feedback' = "Select exactly one card to add"
          /\ UNCHANGED <<board, hand, currentSelection>>
       \/ /\ Len(currentSelection) = 1
          /\ LET card == currentSelection[1]
             IN  /\ board' = [board EXCEPT ![setIndex] = <<card>> \o board[setIndex]]
                 /\ hand' = HandWithoutCard(hand, card)
          /\ currentSelection' = <<>>
          /\ feedback' = "null"
    /\ UNCHANGED <<page, puzzle, puzzleError, invalidMelds, startTime, solveTime,
                   failCount, showSuccess, score, usedCardCounts, maxScore,
                   auxVars>>

\* handleSubmitEmptyHand without the test of the hand
handleSubmitEmptyHandAnyHand ==
    /\ page = "emptyHand"
    /\ PlayShown
    /\ \/ /\ Len(InvalidMeldsOf(board)) > 0
          /\ failCount < MaxFails
          /\ invalidMelds' = InvalidMeldsOf(board)
          /\ feedback' = "Some melds are invalid"
          /\ failCount' = failCount + 1
          /\ UNCHANGED <<showSuccess, solveTime>>
       \/ /\ Len(InvalidMeldsOf(board)) = 0
          /\ invalidMelds' = InvalidMeldsOf(board)
          /\ IF startTime # "null"
             THEN solveTime' = "recorded" /\ showSuccess' = TRUE
             ELSE UNCHANGED <<solveTime, showSuccess>>
          /\ UNCHANGED <<feedback, failCount>>
    /\ UNCHANGED <<page, puzzle, puzzleError, board, hand, currentSelection, startTime,
                   score, usedCardCounts, maxScore, auxVars>>

handleSubmitEmptyHand ==
    /\ page = "emptyHand"
    /\ PlayShown
    /\ \/ /\ Len(hand) > 0
          /\ failCount < MaxFails
          /\ feedback' = "You must use all cards in your hand"
          /\ failCount' = failCount + 1
          /\ UNCHANGED <<invalidMelds, showSuccess, solveTime>>
       \/ /\ Len(hand) = 0
          /\ Len(InvalidMeldsOf(board)) > 0
          /\ failCount < MaxFails
          /\ invalidMelds' = InvalidMeldsOf(board)
          /\ feedback' = "Some melds are invalid"
          /\ failCount' = failCount + 1
          /\ UNCHANGED <<showSuccess, solveTime>>
       \/ /\ Len(hand) = 0
          /\ Len(InvalidMeldsOf(board)) = 0
          /\ invalidMelds' = InvalidMeldsOf(board)
          /\ IF startTime # "null"
             THEN solveTime' = "recorded" /\ showSuccess' = TRUE
             ELSE UNCHANGED <<solveTime, showSuccess>>
          /\ UNCHANGED <<feedback, failCount>>
    /\ UNCHANGED <<page, puzzle, puzzleError, board, hand, currentSelection, startTime,
                   score, usedCardCounts, maxScore, auxVars>>

\* the Close button of the success modal
closeSuccess ==
    /\ showSuccess
    /\ showSuccess' = FALSE
    /\ UNCHANGED <<page, puzzle, puzzleError, board, hand, currentSelection, feedback,
                   invalidMelds, startTime, solveTime, failCount, score,
                   usedCardCounts, maxScore, auxVars>>

(* ------------------------------------------------------------------ *)
(* A puzzle session on either page: from a loaded puzzle, edits and     *)
(* submissions                                                          *)
(* ------------------------------------------------------------------ *)

Init ==
    /\ \/ \E p \in Puzzles : Loaded(p)
       \/ \E p \in PuzzlesEmptyHand : LoadedEmptyHand(p)
    /\ cards = <<>>
    /\ verdict = <<>>
    /\ AuxIdle

Next ==
    \/ \E card \in Range(hand) : handleCardClick(card)
    \/ \E setIndex \in 1..Len(board) :
          \E cardIndex \in 1..Len(board[setIndex]) :
             handleRemoveCard(setIndex, cardIndex)
    \/ \E setIndex \in 1..Len(board) : handleAddCard(setIndex)
    \/ handleNewMeld
    \/ handleSubmit
    \/ \E setIndex \in 1..Len(board) : handleAddCardEmptyHand(setIndex)
    \/ handleSubmitEmptyHand
    \/ closeSuccess

Spec == Init /\ [][Next]_vars

(* ------------------------------------------------------------------ *)
(* The scoring page from its construction: answers to loadPuzzle, edits *)
(* and submissions                                                      *)
(* ------------------------------------------------------------------ *)

\* the error messages of the puzzle lookup
ApiErrors == {"No Puzzle Available Yet", "No Puzzle for this date"}

\* loadPuzzleReceived that leaves the claimed counts as they are
loadPuzzleReceivedKeepingCounts(p) ==
    /\ page = "score"
    /\ puzzle' = p
    /\ board' = <<>>
    /\ hand' = p.initial_cards
    /\ startTime' = "set"
    /\ solveTime' = "null"
    /\ failCount' = 0
    /\ showSuccess' = FALSE
    /\ invalidMelds' = <<>>
    /\ currentSelection' = <<>>
    /\ feedback' = "null"
    /\ puzzleError' = "null"
    /\ score' = 0
    /\ maxScore' = MaxScoreOf(p)
    /\ UNCHANGED <<page, usedCardCounts, auxVars>>

\* loadPuzzleReceived that leaves the score as it is
loadPuzzleReceivedKeepingScore(p) ==
    /\ page = "score"
    /\ puzzle' = p
    /\ board' = <<>>
    /\ hand' = p.initial_cards
    /\ startTime' = "set"
    /\ solveTime' = "null"
    /\ failCount' = 0
    /\ showSuccess' = FALSE
    /\ invalidMelds' = <<>>
    /\ currentSelection' = <<>>
    /\ feedback' = "null"
    /\ puzzleError' = "null"
    /\ usedCardCounts' = <<>>
    /\ maxScore' = MaxScoreOf(p)
    /\ UNCHANGED <<page, score, auxVars>>

\* loadPuzzle: the answer to the fetch carries the puzzle record p
loadPuzzleReceived(p) ==
    /\ page = "score"
    /\ puzzle' = p
    /\ board' = <<>>
    /\ hand' = p.initial_cards
    /\ startTime' = "set"
    /\ solveTime' = "null"
    /\ failCount' = 0
    /\ showSuccess' = FALSE
    /\ invalidMelds' = <<>>
    /\ currentSelection' = <<>>
    /\ feedback' = "null"
    /\ puzzleError' = "null"
    /\ score' = 0
    /\ usedCardCounts' = <<>>
    /\ maxScore' = MaxScoreOf(p)
    /\ UNCHANGED <<page, auxVars>>

\* loadPuzzle: the answer to the fetch carries an error
loadPuzzleError(message) ==
    /\ page = "score"
    /\ puzzle' = NullPuzzle
    /\ board' = <<>>
    /\ hand' = <<>>
    /\ puzzleError' = message
    /\ UNCHANGED <<page, currentSelection, feedback, invalidMelds, startTime,
                   solveTime, failCount, showSuccess, score, usedCardCounts,
                   maxScore, auxVars>>

\* loadPuzzle: the fetch fails or its answer is not ok (the catch block)
loadPuzzleFailed ==
    /\ page = "score"
    /\ puzzle' = NullPuzzle
    /\ board' = <<>>
    /\ hand' = <<>>
    /\ puzzleError' = "Failed to load puzzle"
    /\ UNCHANGED <<page, currentSelection, feedback, invalidMelds, startTime,
                   solveTime, failCount, showSuccess, score, usedCardCounts,
                   maxScore, auxVars>>

InitLoad ==
    /\ HomeInit
    /\ cards = <<>>
    /\ verdict = <<>>
    /\ AuxIdle

NextLoad ==
    \/ \E p \in Puzzles : loadPuzzleReceived(p)
    \/ \E message \in ApiErrors : loadPuzzleError(message)
    \/ loadPuzzleFailed
    \/ \E card \in Range(hand) : handleCardClick(card)
    \/ \E setIndex \in 1..Len(board) :
          \E cardIndex \in 1..Len(board[setIndex]) :
             handleRemoveCard(setIndex, cardIndex)
    \/ \E setIndex \in 1..Len(board) : handleAddCard(setIndex)
    \/ handleNewMeld
    \/ handleSubmit
    \/ closeSuccess

SpecLoad == InitLoad /\ [][NextLoad]_vars

(* ------------------------------------------------------------------ *)
(* The puzzle lookup of the API: the handler of pages/api/today.ts and  *)
(* the handler that reads puzzles.json                                  *)
(*                                                                      *)
(* A date string is modelled as a record [y, m, d, padded]: y, m, d are *)
(* what split('-').map(Number) makes of it and padded tells whether it  *)
(* is written as four, two and two digits.  A Date is a triple          *)
(* <<year, month, day>> of a calendar day, or InvalidDate.             *)
(* ------------------------------------------------------------------ *)

\* Number(s) of a string that is not a numeral
NaN == -1

DateString(y, m, d, padded) == [y |-> y, m |-> m, d |-> d, padded |-> padded]

\* a string without a numeral in it
NotADate == DateString(NaN, NaN, NaN, FALSE)

InvalidDate == <<NaN, NaN, NaN>>

IsLeapYear(y) == (y % 4 = 0 /\ y % 100 # 0) \/ y % 400 = 0

DaysInMonth(y, m) ==
    IF m = 2 THEN (IF IsLeapYear(y) THEN 29 ELSE 28)
    ELSE IF m \in {4, 6, 9, 11} THEN 30
    ELSE 31

\* the year and the month of the month m (1 for January) of year y, m
\* anywhere below or above 1..12
MonthOf(y, m) == [y |-> y + ((m - 1) \div 12), m |-> ((m - 1) % 12) + 1]

\* the calendar day that is day d of month m (in 1..12) of year y, d
\* anywhere below or above the days of the month
RECURSIVE DayOf(_, _, _)
DayOf(y, m, d) ==
    IF d < 1
    THEN LET before == MonthOf(y, m - 1)
         IN  DayOf(before.y, before.m, d + DaysInMonth(before.y, before.m))
    ELSE IF d > DaysInMonth(y, m)
    THEN LET after == MonthOf(y, m + 1)
         IN  DayOf(after.y, after.m, d - DaysInMonth(y, m))
    ELSE <<y, m, d>>

\* new Date(Date.UTC(year, month - 1, day))
DateUTC(year, month, day) ==
    IF NaN \in {year, month, day} THEN InvalidDate
    ELSE DayOf(MonthOf(year, month).y, MonthOf(year, month).m, day)

\* a > b of two Dates
Later(a, b) ==
    /\ a # InvalidDate
    /\ b # InvalidDate
    /\ \/ a[1] > b[1]
       \/ a[1] = b[1] /\ a[2] > b[2]
       \/ a[1] = b[1] /\ a[2] = b[2] /\ a[3] > b[3]

\* date.toISOString().split('T')[0] of a valid Date
ISODate(date) == DateString(date[1], date[2], date[3], TRUE)

\* the records of the data set, of which the lookup reads the date key
puzzleData ==
    {[date |-> DateString(2024, 3, 1, TRUE)],
     [date |-> DateString(2024, 12, 31, TRUE)],
     [date |-> DateString(2025, 1, 1, TRUE)],
     [date |-> DateString(2025, 12, 25, TRUE)],
     [date |-> DateString(2026, 3, 1, TRUE)]}

\* res.status(200).json({ puzzle: null, error })
NullPuzzleAnswer(message) ==
    [status |-> 200, puzzle |-> [kind |-> "null"], error |-> message]

\* res.status(200).json({ puzzle })
PuzzleAnswer(p) ==
    [status |-> 200, puzzle |-> [kind |-> "record", date |-> p.date],
     error |-> "undefined"]

\* res.status(500).json({ error: 'Failed to load puzzle' })
FailedAnswer ==
    [status |-> 500, puzzle |-> [kind |-> "undefined"],
     error |-> "Failed to load puzzle"]

\* the handler of pages/api/today.ts
handler ==
    /\ request.handler = "today"
    /\ response.status = 0
    /\ response' =
          LET todayString == ISODate(today)
              targetDate == IF request.given THEN request.date ELSE todayString
              targetDateObj == DateUTC(targetDate.y, targetDate.m, targetDate.d)
              isFutureDate == Later(targetDateObj, today) /\ targetDate.y # 2025
              found == {p \in puzzleData : p.date = targetDate}
          IN  IF isFutureDate THEN NullPuzzleAnswer("No Puzzle Available Yet")
              ELSE IF found = {} THEN NullPuzzleAnswer("No Puzzle for this date")
              ELSE PuzzleAnswer(CHOOSE p \in found : TRUE)
    /\ UNCHANGED <<pageVars, cards, verdict, walk, request, today, navVars>>

\* the dates of the records before (prev) or after (any other direction)
\* the target date
DirectionDates(dir, targetDate) ==
    {DateUTC(p.date.y, p.date.m, p.date.d) : p \in
        {q \in puzzleData :
            IF dir = "prev"
            THEN Later(targetDate, DateUTC(q.date.y, q.date.m, q.date.d))
            ELSE Later(DateUTC(q.date.y, q.date.m, q.date.d), targetDate)}}

\* res.status(200).json({ hasPuzzle, nextDate }): the nearest of the dates
DirectionAnswer(dir, dates) ==
    IF dates = {}
    THEN [status |-> 200, hasPuzzle |-> FALSE, nextDate |-> [kind |-> "null"]]
    ELSE LET nextDate ==
                 CHOOSE x \in dates : \A z \in dates :
                    z = x \/ (IF dir = "prev" THEN Later(x, z) ELSE Later(z, x))
         IN  [status |-> 200, hasPuzzle |-> TRUE,
              nextDate |-> [kind |-> "date", date |-> ISODate(nextDate)]]

\* the handler that reads puzzles.json
handlerPuzzlesJson ==
    /\ request.handler = "puzzles.json"
    /\ response.status = 0
    /\ response' =
          LET targetDate ==
                  IF request.given
                  THEN DateUTC(request.date.y, request.date.m, request.date.d)
                  ELSE today
              isTestDate == targetDate # InvalidDate /\ targetDate[1] = 2025
              isFutureDate == Later(targetDate, today)
              found == {p \in puzzleData : p.date = ISODate(targetDate)}
          IN  IF request.direction # "undefined"
              THEN DirectionAnswer(request.direction,
                                   DirectionDates(request.direction, targetDate))
              ELSE IF ~isTestDate /\ isFutureDate
              THEN NullPuzzleAnswer("No Puzzle Available Yet")
              ELSE IF targetDate = InvalidDate THEN FailedAnswer
              ELSE IF found = {}
              THEN NullPuzzleAnswer("No puzzle available for this date")
              ELSE PuzzleAnswer(CHOOSE p \in found : TRUE)
    /\ UNCHANGED <<pageVars, cards, verdict, walk, request, today, navVars>>

\* the date strings asked for: years around 2025, months and days also
\* one below and one above the calendar's, and a string that is no date
RequestDates ==
    {DateString(y, m, d, padded) :
        y \in 2024..2026, m \in 0..13, d \in 0..32, padded \in BOOLEAN}
    \cup {NotADate}

\* the calendar days of the handler's clock
Todays == {<<2024, 3, 1>>, <<2025, 6, 15>>, <<2026, 2, 28>>}

Requests ==
    {[handler |-> "today", given |-> TRUE, date |-> date,
      direction |-> "undefined"] : date \in RequestDates}
    \cup {[handler |-> "today", given |-> FALSE, date |-> NotADate,
           direction |-> "undefined"]}
    \cup {[handler |-> "puzzles.json", given |-> TRUE, date |-> date,
           direction |-> dir] :
              date \in RequestDates, dir \in {"undefined", "prev", "next"}}
    \cup {[handler |-> "puzzles.json", given |-> FALSE, date |-> NotADate,
           direction |-> dir] : dir \in {"undefined", "prev", "next"}}

InitApi ==
    /\ HomeInit
    /\ cards = <<>>
    /\ verdict = <<>>
    /\ walk = [pc |-> "idle"]
    /\ request \in Requests
    /\ today \in Todays
    /\ response = [status |-> 0]
    /\ NavIdle

NextApi == handler \/ handlerPuzzlesJson

SpecApi == InitApi /\ [][NextApi]_vars

(* ------------------------------------------------------------------ *)
(* The validators applied to every card sequence within the bounds      *)
(* ------------------------------------------------------------------ *)

AllCards == {Wild} \cup {Card(s, n) : s \in Suits, n \in 1..MaxRank}

InitFn ==
    /\ HomeInit
    /\ \E k \in 0..MaxLen : cards \in [1..k -> AllCards]
    /\ verdict = <<>>
    /\ AuxIdle

Validate ==
    /\ verdict = <<>>
    /\ verdict' = <<isValidRun(cards), isValidGroup(cards), isValidMeld(cards)>>
    /\ UNCHANGED <<pageVars, cards, walk, apiVars, navVars>>

NextFn == Validate

SpecFn == InitFn /\ [][NextFn]_vars

(* ------------------------------------------------------------------ *)
(* The validators applied to every sequence of cards of two suits       *)
(* ------------------------------------------------------------------ *)

\* the wildcard, the cards of one suit and one card of another suit
TwoSuitCards ==
    {Wild, Card("B", 1)} \cup {Card("R", n) : n \in 1..MaxTwoSuitRank}

InitTwoSuits ==
    /\ HomeInit
    /\ \E k \in 0..MaxLen : cards \in [1..k -> TwoSuitCards]
    /\ verdict = <<>>
    /\ AuxIdle

SpecTwoSuits == InitTwoSuits /\ [][NextFn]_vars

(* ------------------------------------------------------------------ *)
(* The validators applied to sequences longer than there are suits      *)
(* ------------------------------------------------------------------ *)

GroupCards == {Wild} \cup {Card(s, n) : s \in Suits, n \in 1..MaxGroupRank}

InitGroup ==
    /\ HomeInit
    /\ \E k \in 0..MaxGroupLen : cards \in [1..k -> GroupCards]
    /\ verdict = <<>>
    /\ AuxIdle

SpecGroup == InitGroup /\ [][NextFn]_vars

(* ------------------------------------------------------------------ *)
(* isValidRun followed statement by statement                           *)
(* ------------------------------------------------------------------ *)

\* the wildcard, the cards of one suit and one card of another suit
WalkCards == {Wild, Card("G", 1)} \cup {Card("R", n) : n \in 1..MaxWalkRank}

InitWalk ==
    /\ HomeInit
    /\ \E k \in 0..MaxWalkLen : cards \in [1..k -> WalkCards]
    /\ verdict = <<>>
    /\ AuxIdle

\* the locals of isValidRun when it returns result
Returned(result) == [pc |-> "return", result |-> result]

\* isValidRun from its entry to the first test of the for loop; walk.i is
\* the loop variable counted from 1 (i + 1 of the code)
runEnter ==
    /\ walk.pc = "idle"
    /\ walk' =
          IF ~RunLengthOk(cards) THEN Returned(FALSE)
          ELSE IF NonWild(cards) = <<>> THEN Returned(FALSE)
          ELSE IF ~(\A k \in 1..Len(cards) :
                       cards[k] = Wild \/ cards[k].s = NonWild(cards)[1].s)
               THEN Returned(FALSE)
          ELSE LET numbers == [k \in 1..Len(cards) |->
                                  IF cards[k] = Wild THEN Null ELSE cards[k].n]
                   sorted == PopTrailingNull(SortNumbers(numbers))
               IN  [pc |-> "loop",
                    sorted |-> sorted,
                    i |-> 2,
                    lastNum |-> sorted[1],
                    wildcardsAvailable |-> WildCount(cards)]
    /\ UNCHANGED <<pageVars, cards, verdict, apiVars, navVars>>

\* one pass through the body of the for loop
runStep ==
    /\ walk.pc = "loop"
    /\ walk.i <= Len(walk.sorted)
    /\ walk' =
          IF walk.sorted[walk.i] = Null
          THEN [walk EXCEPT !.wildcardsAvailable = @ - 1, !.i = @ + 1]
          ELSE IF walk.lastNum = Null
               THEN [walk EXCEPT !.lastNum = walk.sorted[walk.i], !.i = @ + 1]
          ELSE LET gap == walk.sorted[walk.i] - walk.lastNum - 1
               IN  IF gap < 0 THEN Returned(FALSE)
                   ELSE IF gap > walk.wildcardsAvailable THEN Returned(FALSE)
                   ELSE [walk EXCEPT !.wildcardsAvailable = @ - gap,
                                     !.lastNum = walk.sorted[walk.i],
                                     !.i = @ + 1]
    /\ UNCHANGED <<pageVars, cards, verdict, apiVars, navVars>>

\* the loop test fails: return true
runReturn ==
    /\ walk.pc = "loop"
    /\ walk.i > Len(walk.sorted)
    /\ walk' = Returned(TRUE)
    /\ UNCHANGED <<pageVars, cards, verdict, apiVars, navVars>>

NextWalk == runEnter \/ runStep \/ runReturn

SpecWalk == InitWalk /\ [][NextWalk]_vars

(* ------------------------------------------------------------------ *)
(* Claims about the validators (SpecFn)                                 *)
(* ------------------------------------------------------------------ *)

\* positions of the cards of m that are not wildcards
RealAt(m) == {i \in 1..Len(m) : m[i] # Wild}

\* ranks of the cards of m that are not wildcards
RealRanks(m) == {m[i].n : i \in RealAt(m)}

\* the ranks strictly between the lowest and the highest rank of m that no
\* card of m has
MissingRanks(m) ==
    LET ranks == RealRanks(m)
        lowest == CHOOSE r \in ranks : \A x \in ranks : r <= x
        highest == CHOOSE r \in ranks : \A x \in ranks : x <= r
    IN  {r \in lowest..highest : r \notin ranks}

RunRule(m) ==
    /\ Len(m) >= 3
    /\ RealAt(m) # {}
    /\ \A i, j \in RealAt(m) : m[i].s = m[j].s
    /\ \A i, j \in RealAt(m) : i # j => m[i].n # m[j].n
    /\ Cardinality(MissingRanks(m)) <= Len(m) - Cardinality(RealAt(m))

\* C2: validate-run returns true exactly when the sequence has at least 3
\* cards, at least one card is not a wildcard, all non-wildcard cards have
\* the same suit, the non-wildcard ranks are pairwise distinct, and the
\* number of ranks missing strictly between the lowest and the highest
\* non-wildcard rank is at most the number of wildcards.
C2_RunExactly == verdict # <<>> => (verdict[1] <=> RunRule(cards))

\* a wildcard fills the single gap of R1,*,R3, and R1,R2,R4 was rejected
C2_Witness ==
    /\ verdict # <<>>
    /\ \/ cards = <<Card("R", 1), Wild, Card("R", 3)>> /\ verdict[1]
       \/ cards = <<Card("R", 1), Card("R", 2), Card("R", 4)>> /\ ~verdict[1]

GroupRule(m) ==
    /\ Len(m) >= 3
    /\ RealAt(m) # {}
    /\ \A i \in RealAt(m) :
          m[i].n = m[CHOOSE k \in RealAt(m) : \A j \in RealAt(m) : k <= j].n
    /\ \A i, j \in RealAt(m) : i # j => m[i].s # m[j].s

\* C3: validate-group returns true exactly when the sequence has at least
\* 3 cards, at least one card is not a wildcard, every non-wildcard card has
\* the rank of the first non-wildcard card, and no two non-wildcard cards
\* share a suit.
C3_GroupExactly == verdict # <<>> => (verdict[2] <=> GroupRule(cards))

\* R3,G3,Y3 was accepted as a group, or R3,G3,R3 was rejected
C3_Witness ==
    /\ verdict # <<>>
    /\ \/ cards = <<Card("R", 3), Card("G", 3), Card("Y", 3)>> /\ verdict[2]
       \/ cards = <<Card("R", 3), Card("G", 3), Card("R", 3)>> /\ ~verdict[2]

\* C10: for every card sequence with fewer than 3 cards, validate-run,
\* validate-group and validate-meld all return false.
C10_ShortIsInvalid ==
    (verdict # <<>> /\ Len(cards) < 3) =>
        (~verdict[1] /\ ~verdict[2] /\ ~verdict[3])

\* the validators have been applied to R1,R2, a run but for its length
C10_Witness ==
    /\ verdict # <<>>
    /\ cards = <<Card("R", 1), Card("R", 2)>>

(* ------------------------------------------------------------------ *)
(* Claims about a puzzle session (Spec)                                 *)
(* ------------------------------------------------------------------ *)

\* how often the token c occurs in the sequence seq
Occurrences(seq, c) == Cardinality({i \in 1..Len(seq) : seq[i] = c})

\* the cards on the board b, each named by its meld and its place in it
BoardPlaces(b) == UNION {{<<i, j>> : j \in 1..Len(b[i])} : i \in 1..Len(b)}

\* how often the token c occurs on the board b
OnBoard(b, c) == Cardinality({pl \in BoardPlaces(b) : b[pl[1]][pl[2]] = c})

\* the total card count of the board b
CardCount(b) == Cardinality(BoardPlaces(b))

\* every meld on the board b satisfies validate-meld
BoardValid(b) == \A i \in 1..Len(b) : isValidMeld(b[i])

\* the 0-based indices of the melds of b that fail validate-meld
FailingIndices(b) == {i \in 0..Len(b) - 1 : ~isValidMeld(b[i + 1])}

\* the number of cards an optimal solution string names: its pieces that
\* are neither a separator nor the meld name in front of a ":"
SolutionCards(solution) ==
    Cardinality({k \in 1..Len(solution) :
                    /\ solution[k] \notin {"|", ":", ","}
                    /\ (k = Len(solution) \/ solution[k + 1] # ":")})

\* the total card counts of the optimal solutions of the puzzle p
OptimalTotals(p) ==
    {SolutionCards(p.optimal_solutions[k]) : k \in 1..Len(p.optimal_solutions)}

\* the counts the count map of p flags achievable
Achievable(p) ==
    {k \in DOMAIN p.possible_card_counts : p.possible_card_counts[k] = TRUE}

NoDuplicates(seq) == \A i, j \in 1..Len(seq) : i # j => seq[i] # seq[j]

\* C1: in every reachable state of a session on the scoring page the
\* multiset of all cards in the board's melds plus the multiset of cards in
\* hand equals the multiset of the puzzle's initial hand, also for hands
\* that contain a token twice.
C1_CardsConserved ==
    page = "score" =>
        \A c \in Range(puzzle.initial_cards) \cup Range(hand) \cup
                 UNION {Range(board[i]) : i \in 1..Len(board)} :
            OnBoard(board, c) + Occurrences(hand, c)
                = Occurrences(puzzle.initial_cards, c)

\* C4: a submission of a board with no invalid meld whose total card count
\* is flagged achievable and not yet claimed adds 5 points if the count is
\* the total card count of an optimal solution and 2 points otherwise, and
\* adds the count to the claimed counts.
C4_AcceptedSubmission ==
    [][(/\ handleSubmit
        /\ BoardValid(board)
        /\ CardCount(board) \in Achievable(puzzle)
        /\ CardCount(board) \notin Range(usedCardCounts))
       => (/\ score' = score + (IF CardCount(board) \in OptimalTotals(puzzle)
                                THEN 5 ELSE 2)
           /\ Range(usedCardCounts') = Range(usedCardCounts) \cup {CardCount(board)}
           /\ Len(usedCardCounts') = Len(usedCardCounts) + 1)]_vars

\* a count that is no optimal total and then the optimal total were claimed
C4_Witness ==
    /\ puzzle = PuzzleA
    /\ usedCardCounts = <<3, 4>>
    /\ score = 7

\* C5: a submission of a board with no invalid meld whose total card count
\* is not flagged achievable, or is already claimed, is rejected: score and
\* claimed counts are unchanged, completion is not signalled, feedback is
\* set and the fail count increases by one.
C5_RejectedSubmission ==
    [][(/\ handleSubmit
        /\ BoardValid(board)
        /\ \/ CardCount(board) \notin Achievable(puzzle)
           \/ CardCount(board) \in Range(usedCardCounts))
       => (/\ score' = score
           /\ usedCardCounts' = usedCardCounts
           /\ showSuccess' = showSuccess
           /\ solveTime' = solveTime
           /\ feedback' # "null"
           /\ failCount' = failCount + 1)]_vars

\* a count already claimed and a count flagged false have been rejected
C5_Witness ==
    /\ page = "score"
    /\ failCount > 0
    /\ feedback = "This card count has already been used or is not possible"
    /\ BoardValid(board)
    /\ \/ CardCount(board) \in Range(usedCardCounts)
       \/ /\ CardCount(board) \in DOMAIN puzzle.possible_card_counts
          /\ CardCount(board) \notin Achievable(puzzle)

\* C6: each card count is scored at most once: a submission with a count
\* already claimed adds no points and claims nothing, and the claimed
\* counts never contain the same count twice.
C6_ScoredAtMostOnce ==
    [][/\ (handleSubmit /\ CardCount(board) \in Range(usedCardCounts))
           => (score' = score /\ usedCardCounts' = usedCardCounts)
       /\ NoDuplicates(usedCardCounts')]_vars

\* a board whose count is already claimed has been submitted again
C6_Witness ==
    /\ page = "score"
    /\ failCount > 0
    /\ feedback = "This card count has already been used or is not possible"
    /\ BoardValid(board)
    /\ board # <<>>
    /\ CardCount(board) \in Range(usedCardCounts)
    /\ Len(usedCardCounts) = 2

\* C7: completion is signalled (success shown and solve time recorded) by
\* the accepted submission after which the number of distinct claimed
\* counts equals the number of counts flagged achievable, and by no other
\* submission.
C7_CompletionSignal ==
    [][handleSubmit =>
         IF /\ usedCardCounts' # usedCardCounts
            /\ Cardinality(Range(usedCardCounts')) = Cardinality(Achievable(puzzle))
         THEN showSuccess' /\ solveTime' = "recorded"
         ELSE showSuccess' = showSuccess /\ solveTime' = solveTime]_vars

\* the last unclaimed achievable count has been claimed
C7_Witness ==
    /\ page = "score"
    /\ showSuccess
    /\ solveTime = "recorded"
    /\ Range(usedCardCounts) = Achievable(puzzle)
    /\ feedback \in {"Optimal solution! +5 points", "Valid solution! +2 points"}

\* C8 as amended: a submission of a board with at least one meld failing
\* validate-meld never changes score or claimed counts, never signals
\* completion, sets feedback and increases the fail count by one; it records
\* exactly the failing meld indices, except in the variant that requires an
\* empty hand when the hand is not empty, where the recorded indices are
\* left unchanged.
C8_InvalidBoardSubmission ==
    [][((handleSubmit \/ handleSubmitEmptyHand) /\ ~BoardValid(board))
       => (/\ score' = score
           /\ usedCardCounts' = usedCardCounts
           /\ showSuccess' = showSuccess
           /\ solveTime' = solveTime
           /\ feedback' # "null"
           /\ failCount' = failCount + 1
           /\ IF page = "emptyHand" /\ hand # <<>>
              THEN invalidMelds' = invalidMelds
              ELSE /\ Range(invalidMelds') = FailingIndices(board)
                   /\ NoDuplicates(invalidMelds'))]_vars

\* on the scoring page a board whose card count is achievable and unclaimed
\* was rejected for its invalid meld, with cards left in hand
C8_Witness ==
    /\ page = "score"
    /\ ~BoardValid(board)
    /\ CardCount(board) \in Achievable(puzzle)
    /\ CardCount(board) \notin Range(usedCardCounts)
    /\ hand # <<>>
    /\ Range(invalidMelds) = FailingIndices(board)
    /\ feedback = "Some melds are invalid"
    /\ failCount > 0

\* C8 as stated: every submission of a board with at least one meld failing
\* validate-meld, on either page, leaves score, claimed counts and
\* completion alone, records exactly the failing meld indices, sets
\* feedback and increases the fail count by one.
C8_AsStated ==
    [][((handleSubmit \/ handleSubmitEmptyHand) /\ ~BoardValid(board))
       => (/\ score' = score
           /\ usedCardCounts' = usedCardCounts
           /\ showSuccess' = showSuccess
           /\ solveTime' = solveTime
           /\ Range(invalidMelds') = FailingIndices(board)
           /\ feedback' # "null"
           /\ failCount' = failCount + 1)]_vars

\* C9: validate-board returns exactly the set of indices i such that
\* validate-meld(board[i]) is false; the result is empty if and only if
\* every meld on the board satisfies validate-meld.
C9_ValidateBoard ==
    [][handleSubmit =>
         /\ Range(invalidMelds') = FailingIndices(board)
         /\ NoDuplicates(invalidMelds')
         /\ (invalidMelds' = <<>>) <=> BoardValid(board)]_vars

\* a board of two melds was submitted of which the second alone is invalid
C9_Witness ==
    /\ page = "score"
    /\ Len(board) = 2
    /\ invalidMelds = <<1>>
    /\ feedback = "Some melds are invalid"
    /\ isValidMeld(board[1])
    /\ ~isValidMeld(board[2])

(* ------------------------------------------------------------------ *)
(* Further claims about the validators (SpecFn)                         *)
(* ------------------------------------------------------------------ *)

\* C11: for every card sequence m, validate-meld(m) is true if and only if
\* validate-run(m) is true or validate-group(m) is true.
C11_MeldIsRunOrGroup ==
    verdict # <<>> => (verdict[3] <=> (verdict[1] \/ verdict[2]))

\* a sequence was validated that is a meld because it is a group, not a run
C11_Witness ==
    /\ verdict = <<FALSE, TRUE, TRUE>>
    /\ Len(cards) = 3
    /\ WildCount(cards) = 0

\* C20: validate-run and validate-group are both true of m exactly when m
\* has at least three cards of which exactly one is not a wildcard; for
\* every sequence with two or more non-wildcard cards at most one of the
\* two validators is true.
C20_BothExactlyWithOneRealCard ==
    verdict # <<>> =>
        /\ (verdict[1] /\ verdict[2])
              <=> (Len(cards) >= 3 /\ Cardinality(RealAt(cards)) = 1)
        /\ Cardinality(RealAt(cards)) >= 2 => ~(verdict[1] /\ verdict[2])

\* a sequence of one real card between two wildcards was validated and
\* found to be both a run and a group
C20_Witness ==
    /\ verdict = <<TRUE, TRUE, TRUE>>
    /\ Len(cards) = 3
    /\ cards[1] = Wild
    /\ cards[2] # Wild
    /\ cards[3] = Wild

(* ------------------------------------------------------------------ *)
(* Claims about reordered and extended sequences (SpecTwoSuits)         *)
(* ------------------------------------------------------------------ *)

\* the permutations of 1..n, for every length n of a validated sequence
PermutationsOf ==
    [n \in 0..MaxLen |->
        {f \in [1..n -> 1..n] : \A i, j \in 1..n : f[i] = f[j] => i = j}]

\* the cards of m in the order f
Permuted(m, f) == [i \in 1..Len(m) |-> m[f[i]]]

\* C12: the result of each validator depends only on the multiset of cards:
\* for every card sequence and every permutation of it, validate-run,
\* validate-group and validate-meld each return the same result on both.
C12_OrderIrrelevant ==
    verdict # <<>> =>
        \A f \in PermutationsOf[Len(cards)] :
            /\ isValidRun(Permuted(cards, f)) = verdict[1]
            /\ isValidGroup(Permuted(cards, f)) = verdict[2]
            /\ isValidMeld(Permuted(cards, f)) = verdict[3]

\* a run was validated whose cards are in descending order with the
\* wildcard in the middle
C12_Witness ==
    /\ verdict # <<>>
    /\ verdict[1]
    /\ Len(cards) = 3
    /\ cards[2] = Wild
    /\ cards[1] # Wild
    /\ cards[3] # Wild
    /\ cards[1].n > cards[3].n

\* m with the card c put after its first pos cards
InsertAt(m, pos, c) == SubSeq(m, 1, pos) \o <<c>> \o SubSeq(m, pos + 1, Len(m))

Completions(m) ==
    {suit \in [1..Len(m) -> Suits] :
        /\ \A i \in RealAt(m) : suit[i] = m[i].s
        /\ \A i, j \in 1..Len(m) : suit[i] = suit[j] => i = j}

\* C17: every card sequence accepted by validate-group can be completed to
\* a group of same-rank cards with pairwise-distinct suits by assigning to
\* each wildcard one of the four suits that no other card of the group
\* has; in particular no sequence of more than four cards is accepted.
C17_GroupCompletable ==
    (verdict # <<>> /\ verdict[2]) =>
        /\ Completions(cards) # {}
        /\ Cardinality(RealRanks(cards)) = 1
        /\ Len(cards) <= Cardinality(Suits)

(* ------------------------------------------------------------------ *)
(* Further claims about the session (Spec)                              *)
(* ------------------------------------------------------------------ *)

\* no meld of the board b is empty
NoEmptyMeld(b) == \A i \in 1..Len(b) : b[i] # <<>>

\* the board b with the meld at setIndex deleted and the later melds moved
\* down by one index
MeldsShiftedDown(b, setIndex) ==
    [i \in 1..(Len(b) - 1) |-> IF i < setIndex THEN b[i] ELSE b[i + 1]]

\* C13: in every reachable state the board contains no empty meld: when
\* remove-card takes the last card of a meld, that meld is deleted from the
\* board and the melds after it shift down by one index, and the removed
\* card is appended to the hand.
C13_NoEmptyMeld ==
    /\ []NoEmptyMeld(board)
    /\ [][\A setIndex \in 1..Len(board) :
             (handleRemoveCard(setIndex, 1) /\ Len(board[setIndex]) = 1)
                => /\ board' = MeldsShiftedDown(board, setIndex)
                   /\ hand' = Append(hand, board[setIndex][1])]_vars

\* in the variant, whose puzzle starts with one meld on the board, every
\* card of that meld was removed: the board is empty and the hand holds
\* the four cards
C13_Witness ==
    /\ page = "emptyHand"
    /\ board = <<>>
    /\ Len(hand) = 4

\* C14: in the variant that requires an empty hand, submit signals success
\* only when the hand is empty and every meld on the board satisfies
\* validate-meld; a submit with a non-empty hand is rejected before any
\* meld is validated, leaving the recorded invalid-meld indices unchanged
\* and increasing the fail count by one.
C14_EmptyHandSubmission ==
    [][handleSubmitEmptyHand =>
         /\ (hand # <<>> \/ ~BoardValid(board))
               => /\ showSuccess' = showSuccess
                  /\ solveTime' = solveTime
                  /\ failCount' = failCount + 1
         /\ hand # <<>>
               => /\ invalidMelds' = invalidMelds
                  /\ failCount' = failCount + 1
                  /\ feedback' = "You must use all cards in your hand"]_vars

\* in the variant a submission was rejected for the cards left in hand
\* while a meld of the board was invalid, and no index is recorded
C14_Witness ==
    /\ page = "emptyHand"
    /\ hand # <<>>
    /\ ~BoardValid(board)
    /\ feedback = "You must use all cards in your hand"
    /\ invalidMelds = <<>>
    /\ failCount = 1
    /\ ~showSuccess

(* ------------------------------------------------------------------ *)
(* Claims about the walk of isValidRun (SpecWalk)                       *)
(* ------------------------------------------------------------------ *)

\* the sum of the rank gaps between the neighbours among the first k
\* ranks of sorted
RECURSIVE GapsConsumed(_, _)
GapsConsumed(sorted, k) ==
    IF k < 2 THEN 0
    ELSE GapsConsumed(sorted, k - 1) + (sorted[k] - sorted[k - 1] - 1)

\* C18: in validate-run, after the ranks are sorted with wildcards last and
\* the trailing wildcards are discarded, the sequence that the pairwise
\* walk visits contains no wildcard placeholder; hence the walk's
\* wildcard-skip step never executes, and at every step of the walk the
\* available-wildcard count is non-negative and equals the number of
\* wildcards in the input minus the sum of the rank gaps consumed so far.
C18_WalkSeesNoWildcard ==
    walk.pc = "loop" =>
        /\ \A k \in 1..Len(walk.sorted) : walk.sorted[k] # Null
        /\ walk.lastNum # Null
        /\ walk.wildcardsAvailable >= 0
        /\ walk.wildcardsAvailable
              = WildCount(cards) - GapsConsumed(walk.sorted, walk.i - 1)

\* the walk is through with the ranks 1, 3, 5 of an input with three
\* wildcards: two interior gaps were filled and one wildcard is left
C18_Witness ==
    /\ walk.pc = "loop"
    /\ walk.sorted = <<1, 3, 5>>
    /\ walk.i = 4
    /\ WildCount(cards) = 3
    /\ walk.wildcardsAvailable = 1

\* what isValidRun returns step by step is what it returns as a whole
WalkAgrees == walk.pc = "return" => walk.result = isValidRun(cards)

(* ------------------------------------------------------------------ *)
(* Claims about loading a puzzle (SpecLoad)                             *)
(* ------------------------------------------------------------------ *)

\* C15: claimed counts are per puzzle session: whenever a puzzle record is
\* successfully loaded for a date, the claimed counts are reset to empty,
\* the score to 0, the fail count to 0, the selection to empty, the board
\* to empty and the hand to the record's initial cards.
C15_LoadResetsSession ==
    [][\A p \in Puzzles :
          loadPuzzleReceived(p)
             => /\ usedCardCounts' = <<>>
                /\ score' = 0
                /\ failCount' = 0
                /\ currentSelection' = <<>>
                /\ board' = <<>>
                /\ hand' = p.initial_cards]_vars

\* the record with two wildcards is loaded into the page, which was
\* constructed without a puzzle, and nothing is claimed or played yet
C15_Witness ==
    /\ puzzle = PuzzleB
    /\ puzzleError = "null"
    /\ usedCardCounts = <<>>
    /\ score = 0
    /\ failCount = 0
    /\ currentSelection = <<>>
    /\ board = <<>>
    /\ hand = PuzzleB.initial_cards

(* ------------------------------------------------------------------ *)
(* Claims about the puzzle lookup (SpecApi)                             *)
(* ------------------------------------------------------------------ *)

\* a handler has answered a lookup that names a date
LookupAnswered ==
    /\ response.status # 0
    /\ request.given
    /\ request.direction = "undefined"

\* the answer carries the record whose date key is the requested string,
\* and no error
RecordAnswered ==
    /\ response.puzzle.kind = "record"
    /\ response.puzzle.date = request.date
    /\ response.error = "undefined"

\* the answer carries an error message and no record
NullAnswered ==
    /\ response.puzzle.kind # "record"
    /\ response.error # "undefined"

\* the requested string reads as a day after the day of the handler's
\* clock, in a year other than 2025
FutureRequested ==
    /\ Later(DateUTC(request.date.y, request.date.m, request.date.d), today)
    /\ request.date.y # 2025

\* C16: for every requested date string, the puzzle-lookup endpoint answers
\* with exactly one of: the puzzle record whose date key equals the
\* requested date and no error, or a null puzzle together with an error
\* message; it answers null when no record has that date, and for every
\* date later than today's date in the fixed time zone whose year is not
\* 2025 even when a record for that date exists.
C16_LookupAnswer ==
    LookupAnswered =>
        /\ RecordAnswered \/ NullAnswered
        /\ (\A p \in puzzleData : p.date # request.date) => NullAnswered
        /\ FutureRequested => NullAnswered

\* the requested string is a calendar day written as four, two and two
\* digits
CalendarDayRequested ==
    /\ request.date # NotADate
    /\ request.date.padded
    /\ request.date.m \in 1..12
    /\ request.date.d \in 1..DaysInMonth(request.date.y, request.date.m)

\* the answers of the handler of pages/api/today.ts to every string, and
\* of the other handler to the strings that are calendar days, are as C16
\* says
LookupAnswerOnCalendarDays ==
    (request.handler = "today" \/ CalendarDayRequested) => C16_LookupAnswer

\* a record later than the clock's day and outside 2025 was asked for and
\* refused
FutureRecordRefused ==
    /\ LookupAnswered
    /\ CalendarDayRequested
    /\ FutureRequested
    /\ \E p \in puzzleData : p.date = request.date
    /\ response.error = "No Puzzle Available Yet"

(* ------------------------------------------------------------------ *)
(* Claims about the score (SpecLoad)                                    *)
(* ------------------------------------------------------------------ *)

\* the claimed counts of the sequence used that are the total card count
\* of an optimal solution of the puzzle p
OptimalClaims(used, p) == Range(used) \cap OptimalTotals(p)

\* C21: in every reachable state of a puzzle session, every claimed count
\* is flagged achievable in the current puzzle's count map, and score
\* equals 5 times the number of claimed counts that equal the total card
\* count of some optimal solution plus 2 times the number of the other
\* claimed counts; a count is never recorded as claimed without its points
\* being added, nor points added without the count being recorded.
C21_ScoreOfClaims ==
    /\ [](puzzle # NullPuzzle =>
             /\ Range(usedCardCounts) \subseteq Achievable(puzzle)
             /\ NoDuplicates(usedCardCounts)
             /\ score = 5 * Cardinality(OptimalClaims(usedCardCounts, puzzle))
                        + 2 * Cardinality(Range(usedCardCounts)
                                          \ OptimalClaims(usedCardCounts, puzzle)))
    /\ [][handleSubmit =>
             (usedCardCounts' # usedCardCounts) <=> (score' # score)]_vars

\* on the puzzle without wildcards both achievable counts are claimed, the
\* optimal one last: 2 + 5 points
C21_Witness ==
    /\ puzzle = PuzzleA
    /\ usedCardCounts = <<3, 4>>
    /\ score = 7

\* C22: in every reachable state of a puzzle session, score is at most
\* maxScore, where maxScore = 2 x (number of counts flagged achievable) + 3
\* is computed when the puzzle is loaded; and when completion is signalled
\* score equals maxScore.
C22_ScoreAtMostMaxScore ==
    /\ [](/\ score <= maxScore
          /\ puzzle # NullPuzzle
                => maxScore = 2 * Cardinality(Achievable(puzzle)) + 3)
    /\ [][(handleSubmit /\ showSuccess' /\ usedCardCounts' # usedCardCounts)
             => score' = maxScore']_vars

\* completion is signalled on the puzzle without wildcards with the
\* non-optimal count claimed last: the score is the maximum score, 7
C22_Witness ==
    /\ puzzle = PuzzleA
    /\ showSuccess
    /\ solveTime = "recorded"
    /\ usedCardCounts = <<4, 3>>
    /\ score = maxScore
    /\ maxScore = 7

(* ------------------------------------------------------------------ *)
(* Claims about board edits and recorded indices (Spec)                 *)
(* ------------------------------------------------------------------ *)

\* every variable but the feedback message
allButFeedback ==
    <<page, puzzle, puzzleError, board, hand, currentSelection, invalidMelds,
      startTime, solveTime, failCount, showSuccess, score, usedCardCounts,
      maxScore, auxVars>>

\* C25: a rejected board edit changes nothing but the feedback message:
\* new-meld with fewer than 3 selected cards, and add-card with a selection
\* that is not exactly one card, leave board, hand and selection unchanged;
\* an accepted new-meld or add-card always leaves the selection empty.
C25_RejectedEditFrame ==
    [][/\ (handleNewMeld /\ Len(currentSelection) < 3)
             => (UNCHANGED allButFeedback /\ feedback' # "null")
       /\ (handleNewMeld /\ Len(currentSelection) >= 3)
             => currentSelection' = <<>>
       /\ \A setIndex \in 1..Len(board) :
             /\ (handleAddCard(setIndex) /\ Len(currentSelection) # 1)
                   => (UNCHANGED allButFeedback /\ feedback' # "null")
             /\ (handleAddCard(setIndex) /\ Len(currentSelection) = 1)
                   => currentSelection' = <<>>]_vars

\* on the scoring page add-card was rejected with two cards selected and a
\* meld on the board
C25_Witness ==
    /\ page = "score"
    /\ feedback = "Select exactly one card to add"
    /\ Len(currentSelection) = 2
    /\ Len(board) = 1

\* C28: in every reachable state, every index recorded in the invalid-meld
\* set refers to a meld that is currently on the board and that fails
\* validate-meld, also after cards are added to or removed from melds (or a
\* meld is deleted) following a failed submission.
C28_RecordedIndicesCurrent ==
    \A k \in Range(invalidMelds) :
        /\ k + 1 \in 1..Len(board)
        /\ ~isValidMeld(board[k + 1])

(* ------------------------------------------------------------------ *)
(* Date navigation of the scoring page: loadDates, the loadPuzzle       *)
(* effect, handleDateChange and handleReset, with the fetches they      *)
(* issue answered in any order by the handlers of pages/api/dates.ts    *)
(* and pages/api/today.ts over one data set.                            *)
(*                                                                      *)
(* A date key is the 'YYYY-MM-DD' string of a record.  A fetch that has *)
(* not been answered is a record [by, date]: the function that issued   *)
(* it and the date key it asks for ("" when it sends none).             *)
(* ------------------------------------------------------------------ *)

\* fetches under way at the same time
MaxInFlight == 2

\* the date keys a data set is made of
NavDates == {"2024-12-31", "2025-06-15", "2026-02-01", "2026-03-01"}

\* new Date(key) of a date key
ParseDate(key) ==
    CASE key = "2024-12-31" -> <<2024, 12, 31>>
      [] key = "2025-06-15" -> <<2025, 6, 15>>
      [] key = "2026-02-01" -> <<2026, 2, 1>>
      [] key = "2026-03-01" -> <<2026, 3, 1>>
      [] OTHER -> InvalidDate

\* the calendar days of the clock: a day with a record, and the day before
\* it, which has none
NavTodays == {<<2025, 6, 14>>, <<2025, 6, 15>>}

\* the suit of the hand of the record of a date key
NavSuit(key) ==
    CASE key = "2024-12-31" -> "R"
      [] key = "2025-06-15" -> "B"
      [] key = "2026-02-01" -> "G"
      [] OTHER -> "Y"

\* the record of the data set with the date key
NavPuzzle(key) ==
    [date |-> key,
     initial_cards |-> <<Card(NavSuit(key), 1), Card(NavSuit(key), 2),
                         Card(NavSuit(key), 3)>>,
     possible_card_counts |-> (3 :> TRUE),
     optimal_solutions |->
        << <<"S1", ":", NavSuit(key), ",", NavSuit(key), ",", NavSuit(key)>> >>]

\* dates.sort((a, b) => new Date(b).getTime() - new Date(a).getTime()) of
\* the distinct date keys of a set: the newest first
RECURSIVE SortDescending(_)
SortDescending(keys) ==
    IF keys = {} THEN <<>>
    ELSE LET newest == CHOOSE k \in keys :
                          \A z \in keys : ~Later(ParseDate(z), ParseDate(k))
         IN  <<newest>> \o SortDescending(keys \ {newest})

\* the answer of the handler of pages/api/dates.ts over the data set
datesHandler(data) ==
    [dates |-> SortDescending(data), today |-> today]

\* the answer of the handler of pages/api/today.ts over the data set to a
\* request that gives the date key (given) or none
todayHandler(data, given, key) ==
    LET targetDateObj == IF given THEN ParseDate(key) ELSE today
        isFutureDate == Later(targetDateObj, today) /\ targetDateObj[1] # 2025
        found == {k \in data : ParseDate(k) = targetDateObj}
    IN  IF isFutureDate
        THEN [puzzle |-> NullPuzzle, error |-> "No Puzzle Available Yet"]
        ELSE IF found = {}
        THEN [puzzle |-> NullPuzzle, error |-> "No Puzzle for this date"]
        ELSE [puzzle |-> NavPuzzle(CHOOSE k \in found : TRUE), error |-> "undefined"]

\* the data set the handlers read: the dates endpoint lists every record
DataSet == Range(availableDates)

\* array.findIndex(date => date === today) + 1: 0 when no date is today's
RECURSIVE FindToday(_, _)
FindToday(dates, clock) ==
    IF dates = <<>> THEN 0
    ELSE IF ParseDate(Head(dates)) = clock THEN 1
    ELSE LET rest == FindToday(Tail(dates), clock)
         IN  IF rest = 0 THEN 0 ELSE rest + 1

\* a fetch issued by the function by for the date key
Fetch(by, key) == [by |-> by, date |-> key]

\* the loadPuzzle effect after a render with the dates and the index: it
\* returns when the index is -1 or names no date, and fetches otherwise
LoadPuzzleFetch(dates, index) ==
    IF index = -1 \/ index + 1 \notin 1..Len(dates) THEN <<>>
    ELSE <<Fetch("loadPuzzle", dates[index + 1])>>

\* the page renders the puzzle or the load error, not an error or Loading
NavShown == error = "null" /\ (puzzle # NullPuzzle \/ puzzleError # "null")

\* loadDates: the answer of the dates endpoint over a data set arrives
loadDates(i, data) ==
    /\ inFlight[i].by = "loadDates"
    /\ LET answer == datesHandler(data)
           sortedDates == answer.dates
           todayIndex == FindToday(sortedDates, answer.today) - 1
           index == IF todayIndex = -1 THEN 0 ELSE todayIndex
       IN  /\ availableDates' = sortedDates
           /\ currentDateIndex' = index
           /\ inFlight' = RemoveAt(inFlight, i) \o LoadPuzzleFetch(sortedDates, index)
    /\ UNCHANGED <<pageVars, cards, verdict, walk, apiVars, error>>

\* loadDates: the fetch fails or its answer is not ok (the catch block)
loadDatesFailed(i) ==
    /\ inFlight[i].by = "loadDates"
    /\ error' = "Failed to load puzzle dates"
    /\ inFlight' = RemoveAt(inFlight, i)
    /\ UNCHANGED <<pageVars, cards, verdict, walk, apiVars, availableDates,
                   currentDateIndex>>

\* the index handleDateChange computes for the direction
NewIndex(direction) ==
    IF direction = "prev" THEN currentDateIndex + 1 ELSE currentDateIndex - 1

\* handleDateChange sets the index: the target is in range and not future
DateChangeAllowed(newIndex) ==
    /\ newIndex >= 0
    /\ newIndex < Len(availableDates)
    /\ ~Later(ParseDate(availableDates[newIndex + 1]), today)

\* handleDateChange without the test for a future date
handleDateChangeAnyDate(direction) ==
    /\ NavShown
    /\ IF NewIndex(direction) >= 0 /\ NewIndex(direction) < Len(availableDates)
       THEN /\ Len(inFlight) < MaxInFlight
            /\ currentDateIndex' = NewIndex(direction)
            /\ inFlight' = inFlight \o
                  LoadPuzzleFetch(availableDates, NewIndex(direction))
       ELSE UNCHANGED <<currentDateIndex, inFlight>>
    /\ UNCHANGED <<pageVars, cards, verdict, walk, apiVars, availableDates, error>>

\* handleDateChange, and the loadPuzzle effect the new index sets off
handleDateChange(direction) ==
    /\ NavShown
    /\ IF DateChangeAllowed(NewIndex(direction))
       THEN /\ Len(inFlight) < MaxInFlight
            /\ currentDateIndex' = NewIndex(direction)
            /\ inFlight' = inFlight \o
                  LoadPuzzleFetch(availableDates, NewIndex(direction))
       ELSE UNCHANGED <<currentDateIndex, inFlight>>
    /\ UNCHANGED <<pageVars, cards, verdict, walk, apiVars, availableDates, error>>

\* loadPuzzle: the answer to one of its fetches arrives
loadPuzzleResolved(i) ==
    /\ inFlight[i].by = "loadPuzzle"
    /\ LET data == todayHandler(DataSet, TRUE, inFlight[i].date)
       IN  IF data.error # "undefined"
           THEN /\ puzzle' = NullPuzzle
                /\ board' = <<>>
                /\ hand' = <<>>
                /\ puzzleError' = data.error
                /\ UNCHANGED <<currentSelection, feedback, invalidMelds,
                               startTime, solveTime, failCount, showSuccess,
                               score, usedCardCounts, maxScore>>
           ELSE /\ puzzle' = data.puzzle
                /\ board' = <<>>
                /\ hand' = data.puzzle.initial_cards
                /\ startTime' = "set"
                /\ solveTime' = "null"
                /\ failCount' = 0
                /\ showSuccess' = FALSE
                /\ invalidMelds' = <<>>
                /\ currentSelection' = <<>>
                /\ feedback' = "null"
                /\ puzzleError' = "null"
                /\ score' = 0
                /\ usedCardCounts' = <<>>
                /\ maxScore' = MaxScoreOf(data.puzzle)
    /\ inFlight' = RemoveAt(inFlight, i)
    /\ UNCHANGED <<page, cards, verdict, walk, apiVars, availableDates,
                   currentDateIndex, error>>

\* loadPuzzle: one of its fetches fails or its answer is not ok
loadPuzzleRejected(i) ==
    /\ inFlight[i].by = "loadPuzzle"
    /\ puzzle' = NullPuzzle
    /\ board' = <<>>
    /\ hand' = <<>>
    /\ puzzleError' = "Failed to load puzzle"
    /\ inFlight' = RemoveAt(inFlight, i)
    /\ UNCHANGED <<page, currentSelection, feedback, invalidMelds, startTime,
                   solveTime, failCount, showSuccess, score, usedCardCounts,
                   maxScore, cards, verdict, walk, apiVars, availableDates,
                   currentDateIndex, error>>

\* handleReset up to its fetch, which sends no date
handleReset ==
    /\ NavShown
    /\ PlayShown
    /\ Len(inFlight) < MaxInFlight
    /\ inFlight' = Append(inFlight, Fetch("handleReset", ""))
    /\ UNCHANGED <<pageVars, cards, verdict, walk, apiVars, availableDates,
                   currentDateIndex, error>>

\* handleReset: the answer to its fetch arrives
handleResetResolved(i) ==
    /\ inFlight[i].by = "handleReset"
    /\ LET data == todayHandler(DataSet, FALSE, "")
       IN  IF data.error # "undefined"
           THEN /\ error' = data.error
                /\ UNCHANGED <<board, hand, currentSelection, feedback,
                               invalidMelds>>
           ELSE /\ board' = <<>>
                /\ hand' = data.puzzle.initial_cards
                /\ currentSelection' = <<>>
                /\ feedback' = "null"
                /\ invalidMelds' = <<>>
                /\ error' = "null"
    /\ inFlight' = RemoveAt(inFlight, i)
    /\ UNCHANGED <<page, puzzle, puzzleError, startTime, solveTime, failCount,
                   showSuccess, score, usedCardCounts, maxScore, cards, verdict,
                   walk, apiVars, availableDates, currentDateIndex>>

\* handleReset: its fetch fails or its answer is not ok (the catch block)
handleResetRejected(i) ==
    /\ inFlight[i].by = "handleReset"
    /\ error' = "Failed to reset puzzle"
    /\ inFlight' = RemoveAt(inFlight, i)
    /\ UNCHANGED <<pageVars, cards, verdict, walk, apiVars, availableDates,
                   currentDateIndex>>

\* the page when it is constructed: the mount effect has called loadDates
InitNav ==
    /\ HomeInit
    /\ cards = <<>>
    /\ verdict = <<>>
    /\ walk = [pc |-> "idle"]
    /\ request = [handler |-> "none"]
    /\ response = [status |-> 0]
    /\ today \in NavTodays
    /\ availableDates = <<>>
    /\ currentDateIndex = -1
    /\ error = "null"
    /\ inFlight = <<Fetch("loadDates", "")>>

\* the fetches answered in any order, the date buttons, Reset, and of a play
\* session the handlers that select cards, lay melds and submit
NextNav ==
    \/ \E i \in 1..Len(inFlight) : \E data \in SUBSET NavDates : loadDates(i, data)
    \/ \E i \in 1..Len(inFlight) : loadDatesFailed(i)
    \/ \E direction \in {"prev", "next"} : handleDateChange(direction)
    \/ \E i \in 1..Len(inFlight) : loadPuzzleResolved(i)
    \/ \E i \in 1..Len(inFlight) : loadPuzzleRejected(i)
    \/ handleReset
    \/ \E i \in 1..Len(inFlight) : handleResetResolved(i)
    \/ \E i \in 1..Len(inFlight) : handleResetRejected(i)
    \/ error = "null" /\ \E card \in Range(hand) : handleCardClick(card)
    \/ error = "null" /\ handleNewMeld
    \/ error = "null" /\ handleSubmit
    \/ error = "null" /\ closeSuccess

SpecNav == InitNav /\ [][NextNav]_vars

(* ------------------------------------------------------------------ *)
(* Date navigation: Reset, answers out of order, the date index         *)
(* ------------------------------------------------------------------ *)

\* the answer to the fetch of handleReset carries a puzzle record
ResetSucceeds == todayHandler(DataSet, FALSE, "").error = "undefined"

\* C23: after Reset Puzzle completes successfully, for whichever date is
\* displayed, the board is empty, the hand is the initial cards of the
\* loaded puzzle (the one submissions are scored against), the selection
\* and the invalid-meld indices are empty, and the score and the claimed
\* counts are unchanged.
C23_ResetRestoresLoadedPuzzle ==
    [][\A i \in 1..Len(inFlight) :
          (handleResetResolved(i) /\ ResetSucceeds) =>
             /\ board' = <<>>
             /\ hand' = puzzle'.initial_cards
             /\ currentSelection' = <<>>
             /\ invalidMelds' = <<>>
             /\ score' = score
             /\ usedCardCounts' = usedCardCounts]_vars

\* the date the page displays
SelectedDate == availableDates[currentDateIndex + 1]

\* no fetch of loadPuzzle is waiting for its answer
LoadsComplete == \A i \in 1..Len(inFlight) : inFlight[i].by # "loadPuzzle"

\* C24: when the selected date changes while an earlier load is in flight
\* then, for every order of the answers, once all loads have completed the
\* loaded puzzle is that of the currently selected date, and an answer for
\* a previously selected date never resets the score, the claimed counts,
\* the board or the hand of the session for the currently selected date.
C24_LoadsFollowSelection ==
    /\ []((LoadsComplete /\ puzzle # NullPuzzle) => puzzle.date = SelectedDate)
    /\ [][\A i \in 1..Len(inFlight) :
             (loadPuzzleResolved(i) /\ inFlight[i].date # SelectedDate) =>
                UNCHANGED <<score, usedCardCounts, board, hand>>]_vars

\* the dates endpoint has answered
DatesLoaded == currentDateIndex # -1

\* the date at the 0-based index
DateAt(index) == ParseDate(availableDates[index + 1])

\* no date of the list lies between the older and the newer
Adjacent(older, newer) ==
    /\ Later(newer, older)
    /\ \A k \in 1..Len(availableDates) :
          ~(Later(ParseDate(availableDates[k]), older)
            /\ Later(newer, ParseDate(availableDates[k])))

\* a date change to the 0-based target: out of range or later than today
\* leaves the index unchanged, otherwise prev moves one step to the next
\* older date and next one step to the next newer date
DateChangeStep(direction, target) ==
    IF target < 0 \/ target >= Len(availableDates) THEN UNCHANGED currentDateIndex
    ELSE IF Later(DateAt(target), today) THEN UNCHANGED currentDateIndex
    ELSE /\ currentDateIndex' = target
         /\ direction = "prev" => Adjacent(DateAt(target), DateAt(currentDateIndex))
         /\ direction = "next" => Adjacent(DateAt(currentDateIndex), DateAt(target))

\* C26 as stated: for every list of available dates the dates endpoint
\* returns, once the dates have loaded the current date index is a valid
\* index (0 <= index < length) after any sequence of prev/next operations;
\* prev moves one step to the next older date and next one step to the next
\* newer date, and a date change whose target is out of range or later than
\* today leaves the index unchanged.
C26_AsStated ==
    /\ [](DatesLoaded =>
             currentDateIndex >= 0 /\ currentDateIndex < Len(availableDates))
    /\ [][\A direction \in {"prev", "next"} :
             handleDateChange(direction) =>
                DateChangeStep(direction,
                   IF direction = "prev" THEN currentDateIndex + 1
                                          ELSE currentDateIndex - 1)]_vars

\* C26: for every list with at least one date that the dates endpoint
\* returns, once the dates have loaded the current date index is a valid
\* index (0 <= index < length) after any sequence of prev/next operations;
\* prev moves one step to the next older date and next one step to the next
\* newer date, and a date change whose target is out of range or later than
\* today leaves the index unchanged.
C26_IndexValid ==
    /\ []((DatesLoaded /\ availableDates # <<>>) =>
             currentDateIndex >= 0 /\ currentDateIndex < Len(availableDates))
    /\ [][\A direction \in {"prev", "next"} :
             handleDateChange(direction) =>
                DateChangeStep(direction,
                   IF direction = "prev" THEN currentDateIndex + 1
                                          ELSE currentDateIndex - 1)]_vars

\* of four dates, two of them future, prev has moved from today's to the
\* oldest and its puzzle is loaded
C26_Witness ==
    /\ Len(availableDates) = 4
    /\ today = <<2025, 6, 15>>
    /\ currentDateIndex = 3
    /\ puzzle # NullPuzzle
    /\ puzzle.date = "2024-12-31"
    /\ inFlight = <<>>

\* the 0-based indices that sequences of prev/next operations select from
\* the indices seen: a step goes to a neighbour that is not later than today
RECURSIVE SelectableFrom(_)
SelectableFrom(seen) ==
    LET more == seen \cup
                {t \in 0..(Len(availableDates) - 1) :
                    /\ \E i \in seen : t = i + 1 \/ t = i - 1
                    /\ ~Later(DateAt(t), today)}
    IN  IF more = seen THEN seen ELSE SelectableFrom(more)

\* the dates have finished loading and no load has been answered yet
DatesJustLoaded ==
    /\ DatesLoaded
    /\ error = "null"
    /\ puzzle = NullPuzzle
    /\ puzzleError = "null"

\* C27: if the list contains at least one date on or before today, then
\* from the state reached when the dates finish loading a sequence of
\* prev/next operations selects that date, whatever other (including
\* future) dates the list contains and whether or not today's date is in
\* the list.
C27_PastDateSelectable ==
    DatesJustLoaded =>
       \A k \in 0..(Len(availableDates) - 1) :
          ~Later(DateAt(k), today) => k \in SelectableFrom({currentDateIndex})

\* with two dates later than today and today's not in the list, the page
\* never leaves the newest date
StuckOnNewest ==
    (today = <<2025, 6, 14>>
     /\ availableDates = <<"2026-02-01", "2025-06-15", "2024-12-31">>)
       => currentDateIndex = 0

====
